---- MODULE Spec2Model ----
(***************************************************************************)
(* Model of the two test-input generators                                  *)
(*   datastructure/vertex_add_path_sum/gen/line.cpp   (prog = "line")      *)
(*   math/division_of_big_integers/gen/medium.cpp     (prog = "medium")    *)
(* Each generator is a straight-line program over a Random Source.  A run  *)
(* is a record of the program's variables, its position (pc), the last     *)
(* thing it wrote to stdout (out) and how many things of each kind it has  *)
(* written (emitted).  Two runs of the same program on the same seed are   *)
(* kept side by side: run 1 is the run every property speaks about, run 2  *)
(* only moves when twin = TRUE and then sees the same Random Source.       *)
(***************************************************************************)
EXTENDS Integers, Sequences, FiniteSets, TLC

VARIABLES prog, seed, nmax, twin, turn, run

vars == <<prog, seed, nmax, twin, turn, run>>

----------------------------------------------------------------------------
(* Bounds of the model and constants of the programs *)

\* params.h: N_AND_Q_MAX is drawn from 0..MaxN
MaxN == 3
\* params.h
A_AND_X_MAX == 2
\* params.h
SUM_OF_CHARACTER_LENGTH == 4
\* lengths drawn by uniform(1, upper) are explored up to MaxLen
MaxLen == 3

\* medium.cpp:12
TierTable == <<10, 300, 10000>>
\* medium.cpp:10
SeedOffset == 12345
\* medium.cpp:27, the character '0'
Char0 == 48
\* medium.cpp:41, the character ' ' of "%s %s\n"
Space == 32

Runs == {1, 2}

\* argv[1] as parsed by atoll: every remainder class of seed % 3, both signs
Seeds == {-2, -1, 0, 1, 2}

\* what a read outside the tier vector may yield
GarbageInts == {-1, 0, 1, 33}

----------------------------------------------------------------------------
(* Random Source (random.h): contract only *)

\* uniform(lo, hi): any integer of [lo, hi]; no result when lo > hi
Uniform(lo, hi) == lo..hi

\* the two ends of uniform(lo, hi): the draws explored for digits and bias
Sample(lo, hi) == IF lo > hi THEN {} ELSE {lo, hi}

\* the draws explored for a length
LenSample(lo, hi) == {x \in Uniform(lo, hi) : x <= MaxLen}

\* perm(k): every bijection on 0..k-1
Perms(k) == {p \in [0..(k - 1) -> 0..(k - 1)] :
               \A a, b \in 0..(k - 1) : a # b => p[a] # p[b]}

Call(op, lo, hi, res) == [op |-> op, lo |-> lo, hi |-> hi, res |-> res]

\* The Random Source is a function of its seed and of the calls made so
\* far: when run 2 makes the k-th call of a step that run 1 has already
\* taken, with the same arguments, it gets run 1's result.
Draw(r, k, op, lo, hi, S) ==
  IF /\ twin
     /\ r = 2
     /\ run[1].steps = run[2].steps + 1
     /\ k <= Len(run[1].calls)
     /\ run[1].calls[k].op = op
     /\ run[1].calls[k].lo = lo
     /\ run[1].calls[k].hi = hi
  THEN {run[1].calls[k].res}
  ELSE S

----------------------------------------------------------------------------
(* Helpers *)

\* C++ % on long long: the remainder takes the sign of the dividend
CRem(a, b) == IF a >= 0 THEN a % b ELSE -((-a) % b)

NoOut == [kind |-> "none", toks |-> <<>>]

Kinds == {"header", "value", "newline", "edge", "query", "count", "pair"}

InitRun ==
  [pc |-> "start", n |-> 0, q |-> 0, i |-> 0, u |-> <<>>, v |-> <<>>,
   perm |-> <<>>, genSeed |-> 0, idx |-> 0, upper |-> 0,
   A |-> <<>>, B |-> <<>>, lsum |-> 0,
   out |-> NoOut, emitted |-> [k \in Kinds |-> 0],
   calls |-> <<>>, ncalls |-> 0, steps |-> 0, cands |-> <<>>]

\* printf: the run's last write, and one more write of that kind
Emit(s, kind, toks) ==
  [s EXCEPT !.out = [kind |-> kind, toks |-> toks],
            !.emitted[kind] = @ + 1]

Terminal(r) == run[r].pc \in {"done", "aborted"}

\* what a run has shown to the outside after its latest step
Observable(r) ==
  [pc |-> run[r].pc, out |-> run[r].out, emitted |-> run[r].emitted,
   calls |-> run[r].calls]

\* the two runs have taken the same number of steps and differ
Diverged ==
  twin /\ run[1].steps = run[2].steps /\ Observable(1) # Observable(2)

\* One step of run r: the run's new record s and the calls the step made.
\* With twin = TRUE the two runs alternate while both are still running,
\* and the comparison ends at the first difference.
Step(r, s, made) ==
  /\ ~Diverged
  /\ run' = [run EXCEPT ![r] = [s EXCEPT !.steps = @ + 1,
                                        !.ncalls = @ + Len(made),
                                        !.calls = IF twin THEN made ELSE <<>>]]
  /\ turn' = IF twin /\ ~Terminal(3 - r) THEN 3 - r ELSE r
  /\ UNCHANGED <<prog, seed, nmax, twin>>

Ready(r, p, at) == turn = r /\ prog = p /\ run[r].pc = at

----------------------------------------------------------------------------
(* line.cpp *)

\* a size that is never negative
EdgeCountClamped(n) == IF n - 1 < 0 THEN 0 ELSE n - 1

\* line.cpp:21 the size given to vector<int> u(n - 1), v(n - 1)
EdgeCount(n) == n - 1

\* line.cpp:23
CanonU(i) == i

\* line.cpp:24
CanonV(i) == i + 1

\* relabelling by position instead of by endpoint
RelabelByIndex(perm, vec) == [j \in DOMAIN vec |-> perm[j]]

\* line.cpp:30-31 u[i] = perm[u[i]]
Relabel(perm, vec) == [j \in DOMAIN vec |-> perm[vec[j]]]

\* an upper end one too far
QueryHiInclusive(n) == n

\* line.cpp:43,47,48 the upper end of uniform(0, n - 1)
QueryHi(n) == n - 1

\* line.cpp:9-14
LineStart(r) ==
  /\ Ready(r, "line", "start")
  /\ LET s == [run[r] EXCEPT !.genSeed = seed, !.n = nmax, !.q = nmax,
                             !.i = 0, !.pc = "values"]
     IN Step(r, Emit(s, "header", <<s.n, s.q>>), <<>>)

\* line.cpp:15-18, one iteration
LineValue(r) ==
  /\ Ready(r, "line", "values")
  /\ run[r].i < run[r].n
  /\ \E x \in Draw(r, 1, "uniform", 0, A_AND_X_MAX, Uniform(0, A_AND_X_MAX)) :
       Step(r, Emit([run[r] EXCEPT !.i = @ + 1], "value", <<x>>),
            <<Call("uniform", 0, A_AND_X_MAX, x)>>)

\* line.cpp:15 (loop exit), 19
LineValuesEnd(r) ==
  /\ Ready(r, "line", "values")
  /\ run[r].i >= run[r].n
  /\ Step(r, Emit([run[r] EXCEPT !.pc = "alloc"], "newline", <<>>), <<>>)

\* line.cpp:21-25
LineAlloc(r) ==
  /\ Ready(r, "line", "alloc")
  /\ EdgeCount(run[r].n) >= 0
  /\ LET m == EdgeCount(run[r].n)
     IN Step(r, [run[r] EXCEPT !.u = [j \in 0..(m - 1) |-> CanonU(j)],
                               !.v = [j \in 0..(m - 1) |-> CanonV(j)],
                               !.pc = "shuffle"], <<>>)

\* line.cpp:21 with n - 1 < 0: the size converts to a value above
\* max_size(), the constructor throws and the process is terminated
LineAllocFail(r) ==
  /\ Ready(r, "line", "alloc")
  /\ EdgeCount(run[r].n) < 0
  /\ Step(r, [run[r] EXCEPT !.pc = "aborted"], <<>>)

\* line.cpp:27-33
LineShuffle(r) ==
  /\ Ready(r, "line", "shuffle")
  /\ \E p \in Draw(r, 1, "perm", 0, run[r].n, Perms(run[r].n)) :
       Step(r, [run[r] EXCEPT !.perm = p,
                              !.u = Relabel(p, run[r].u),
                              !.v = Relabel(p, run[r].v),
                              !.i = 0, !.pc = "edges"],
            <<Call("perm", 0, run[r].n, p)>>)

\* line.cpp:35-37, one iteration
LineEdge(r) ==
  /\ Ready(r, "line", "edges")
  /\ run[r].i < run[r].n - 1
  /\ Step(r, Emit([run[r] EXCEPT !.i = @ + 1], "edge",
                  <<run[r].u[run[r].i], run[r].v[run[r].i]>>), <<>>)

\* line.cpp:35 (loop exit)
LineEdgesEnd(r) ==
  /\ Ready(r, "line", "edges")
  /\ run[r].i >= run[r].n - 1
  /\ Step(r, [run[r] EXCEPT !.i = 0, !.pc = "queries"], <<>>)

\* line.cpp:39-51, one iteration
LineQuery(r) ==
  /\ Ready(r, "line", "queries")
  /\ run[r].i < run[r].q
  /\ LET hi == QueryHi(run[r].n)
         s  == [run[r] EXCEPT !.i = @ + 1]
     IN \E t \in Draw(r, 1, "uniform", 0, 1, Uniform(0, 1)) :
          IF t = 0
          THEN \E p \in Draw(r, 2, "uniform", 0, hi, Uniform(0, hi)) :
               \E x \in Draw(r, 3, "uniform", 0, A_AND_X_MAX,
                             Uniform(0, A_AND_X_MAX)) :
                 Step(r, Emit(s, "query", <<t, p, x>>),
                      <<Call("uniform", 0, 1, t), Call("uniform", 0, hi, p),
                        Call("uniform", 0, A_AND_X_MAX, x)>>)
          ELSE \E a \in Draw(r, 2, "uniform", 0, hi, Uniform(0, hi)) :
               \E b \in Draw(r, 3, "uniform", 0, hi, Uniform(0, hi)) :
                 Step(r, Emit(s, "query", <<t, a, b>>),
                      <<Call("uniform", 0, 1, t), Call("uniform", 0, hi, a),
                        Call("uniform", 0, hi, b)>>)

\* line.cpp:39 (loop exit), 52
LineDone(r) ==
  /\ Ready(r, "line", "queries")
  /\ run[r].i >= run[r].q
  /\ Step(r, [run[r] EXCEPT !.pc = "done"], <<>>)

----------------------------------------------------------------------------
(* medium.cpp *)

\* medium.cpp:12 the index given to the tier vector
TierIndex(sd) == CRem(sd, 3)

\* a swap that ignores the bias draw
SwapAlways(bias, alen, blen) == alen < blen

\* medium.cpp:21-22
SwapNeeded(bias, alen, blen) == bias # 0 /\ alen < blen

\* medium.cpp:26
LowerA(alen, i) == IF alen # 1 /\ i = 0 THEN 1 ELSE 0

\* B's first digit drawn like any other digit
LowerBZero(i) == 0

\* medium.cpp:30
LowerB(i) == IF i = 0 THEN 1 ELSE 0

Lower(isA, len, i) == IF isA THEN LowerA(len, i) ELSE LowerB(i)

\* a budget test that lets one more character through
BudgetExceededOffByOne(total) == total > SUM_OF_CHARACTER_LENGTH + 1

\* a budget test that rejects a candidate landing exactly on the budget
BudgetExceededAtLimit(total) == total >= SUM_OF_CHARACTER_LENGTH

\* medium.cpp:34
BudgetExceeded(total) == total > SUM_OF_CHARACTER_LENGTH

\* medium.cpp:25-32 the digits drawn for positions i..len-1, the draw for
\* position i being call number k of the step
RECURSIVE Synth(_, _, _, _, _)
Synth(r, k, isA, len, i) ==
  IF i >= len
  THEN {<<>>}
  ELSE {<<d>> \o rest :
          d \in Draw(r, k, "uniform", Lower(isA, len, i), 9,
                     Sample(Lower(isA, len, i), 9)),
          rest \in Synth(r, k + 1, isA, len, i + 1)}

\* medium.cpp:27,31 push_back('0' + digit)
ToChars(ds) == [j \in 1..Len(ds) |-> Char0 + ds[j]]

DigitCalls(isA, ds) ==
  [j \in 1..Len(ds) |-> Call("uniform", Lower(isA, Len(ds), j - 1), 9, ds[j])]

\* medium.cpp:9-15, the index inside the vector
MedStart(r) ==
  /\ Ready(r, "medium", "start")
  /\ TierIndex(seed) \in 0..2
  /\ Step(r, [run[r] EXCEPT !.genSeed = seed + SeedOffset,
                            !.idx = TierIndex(seed),
                            !.upper = TierTable[TierIndex(seed) + 1],
                            !.A = <<>>, !.B = <<>>, !.lsum = 0,
                            !.pc = "loop"], <<>>)

\* medium.cpp:12 with a negative index: the read is outside the vector;
\* it yields some int, or the process dies
MedStartOutOfRange(r) ==
  /\ Ready(r, "medium", "start")
  /\ TierIndex(seed) \notin 0..2
  /\ LET s == [run[r] EXCEPT !.genSeed = seed + SeedOffset,
                             !.idx = TierIndex(seed),
                             !.A = <<>>, !.B = <<>>, !.lsum = 0]
     IN \/ \E g \in GarbageInts :
             Step(r, [s EXCEPT !.upper = g, !.pc = "loop"], <<>>)
        \/ Step(r, [s EXCEPT !.pc = "aborted"], <<>>)

\* medium.cpp:18 uniform(1, upper) with upper < 1: the Random Source fails
MedRangeError(r) ==
  /\ Ready(r, "medium", "loop")
  /\ run[r].upper < 1
  /\ Step(r, [run[r] EXCEPT !.pc = "aborted"], <<>>)

\* medium.cpp:16-36, one iteration of while (true)
MedCandidate(r) ==
  /\ Ready(r, "medium", "loop")
  /\ run[r].upper >= 1
  /\ LET up == run[r].upper IN
     \E alen0 \in Draw(r, 1, "uniform", 1, up, LenSample(1, up)) :
     \E blen0 \in Draw(r, 2, "uniform", 1, up, LenSample(1, up)) :
     \E bias \in Draw(r, 3, "uniform", 0, 9, Sample(0, 9)) :
       LET alen == IF SwapNeeded(bias, alen0, blen0) THEN blen0 ELSE alen0
           blen == IF SwapNeeded(bias, alen0, blen0) THEN alen0 ELSE blen0
       IN \E da \in Synth(r, 4, TRUE, alen, 0) :
          \E db \in Synth(r, 4 + alen, FALSE, blen, 0) :
            LET sa == ToChars(da)
                sb == ToChars(db)
                total == run[r].lsum + Len(sa) + Len(sb)
                c == [alen0 |-> alen0, blen0 |-> blen0, bias |-> bias,
                      alen |-> Len(sa), blen |-> Len(sb)]
                s == [run[r] EXCEPT !.lsum = total,
                                    !.cands = Append(@, c)]
                made == <<Call("uniform", 1, up, alen0),
                          Call("uniform", 1, up, blen0),
                          Call("uniform", 0, 9, bias)>>
                        \o DigitCalls(TRUE, da) \o DigitCalls(FALSE, db)
            IN IF BudgetExceeded(total)
               THEN Step(r, [s EXCEPT !.pc = "print"], made)
               ELSE Step(r, [s EXCEPT !.A = Append(@, sa),
                                      !.B = Append(@, sb)], made)

\* medium.cpp:39
MedPrintCount(r) ==
  /\ Ready(r, "medium", "print")
  /\ Step(r, Emit([run[r] EXCEPT !.i = 0, !.pc = "pairs"], "count",
                  <<Len(run[r].A)>>), <<>>)

\* medium.cpp:40-42, one iteration
MedPrintPair(r) ==
  /\ Ready(r, "medium", "pairs")
  /\ run[r].i < Len(run[r].A)
  /\ Step(r, Emit([run[r] EXCEPT !.i = @ + 1], "pair",
                  run[r].A[run[r].i + 1] \o <<Space>> \o run[r].B[run[r].i + 1]),
          <<>>)

\* medium.cpp:40 (loop exit), 43
MedDone(r) ==
  /\ Ready(r, "medium", "pairs")
  /\ run[r].i >= Len(run[r].A)
  /\ Step(r, [run[r] EXCEPT !.pc = "done"], <<>>)

----------------------------------------------------------------------------
(* Specifications *)

Inputs ==
  /\ prog \in {"line", "medium"}
  /\ seed \in Seeds
  /\ nmax \in (IF prog = "line" THEN 0..MaxN ELSE {0})
  /\ turn = 1
  /\ run = [r \in Runs |-> InitRun]

Init == Inputs /\ twin = FALSE

InitTwin == Inputs /\ twin = TRUE

Next ==
  \E r \in Runs :
    \/ LineStart(r)
    \/ LineValue(r)
    \/ LineValuesEnd(r)
    \/ LineAlloc(r)
    \/ LineAllocFail(r)
    \/ LineShuffle(r)
    \/ LineEdge(r)
    \/ LineEdgesEnd(r)
    \/ LineQuery(r)
    \/ LineDone(r)
    \/ MedStart(r)
    \/ MedStartOutOfRange(r)
    \/ MedRangeError(r)
    \/ MedCandidate(r)
    \/ MedPrintCount(r)
    \/ MedPrintPair(r)
    \/ MedDone(r)

\* one run
Spec == Init /\ [][Next]_vars

\* two runs of the same program on the same seed
SpecTwin == InitTwin /\ [][Next]_vars

\* one run that keeps executing while it has a next statement
FairSpec == Spec /\ WF_vars(Next)

----------------------------------------------------------------------------
(* Properties *)

RECURSIVE SumLens(_, _, _)
\* the sum of |A_j| + |B_j| over the first k pairs
SumLens(A, B, k) ==
  IF k = 0 THEN 0 ELSE SumLens(A, B, k - 1) + Len(A[k]) + Len(B[k])

RECURSIVE CandSum(_, _)
\* the sum of the lengths of the first k candidates
CandSum(cs, k) ==
  IF k = 0 THEN 0 ELSE CandSum(cs, k - 1) + cs[k].alen + cs[k].blen

Digits == Char0..(Char0 + 9)

EdgeSet(s) == {{s.u[j], s.v[j]} : j \in DOMAIN s.u}

RECURSIVE ReachFrom(_, _, _)
\* the vertices within k edges of the set S
ReachFrom(E, S, k) ==
  IF k = 0 THEN S
  ELSE ReachFrom(E, S \cup UNION {e \in E : e \cap S # {}}, k - 1)

\* E is a tree on the vertices 0..n-1
IsTree(n, E) ==
  /\ \A e \in E : Cardinality(e) = 2 /\ e \subseteq 0..(n - 1)
  /\ Cardinality(E) = n - 1
  /\ ReachFrom(E, {0}, n) = 0..(n - 1)

Max2(a, b) == IF a >= b THEN a ELSE b
Min2(a, b) == IF a <= b THEN a ELSE b

\* C1: the accepted pairs' total length |A_i| + |B_i| never exceeds
\* SUM_OF_CHARACTER_LENGTH, in every state of the loop and at the end.
BudgetRespected ==
  \A r \in Runs :
    prog = "medium" =>
      /\ Len(run[r].A) = Len(run[r].B)
      /\ SumLens(run[r].A, run[r].B, Len(run[r].A)) <= SUM_OF_CHARACTER_LENGTH

\* two pairs accepted, filling the budget exactly, and printed
BudgetFilled ==
  /\ prog = "medium"
  /\ run[1].pc = "done"
  /\ Len(run[1].A) = 2
  /\ SumLens(run[1].A, run[1].B, 2) = SUM_OF_CHARACTER_LENGTH

\* C2: once the edges are relabelled, for N >= 1 there are N-1 of them,
\* edge i is (perm[i], perm[i+1]), its ends differ, the edges form a tree
\* on 0..N-1, the inverse of perm gives back the path i -- i+1, and the
\* edges are written in the order of i.
TreeEdges ==
  \A r \in Runs :
    LET s == run[r] IN
    (prog = "line" /\ s.n >= 1 /\ s.pc \in {"edges", "queries", "done"}) =>
      /\ DOMAIN s.u = 0..(s.n - 2)
      /\ DOMAIN s.v = 0..(s.n - 2)
      /\ s.perm \in Perms(s.n)
      /\ \A j \in 0..(s.n - 2) :
           /\ s.u[j] = s.perm[j]
           /\ s.v[j] = s.perm[j + 1]
           /\ s.u[j] # s.v[j]
           /\ \E a, b \in 0..(s.n - 1) :
                s.perm[a] = s.u[j] /\ s.perm[b] = s.v[j] /\ a = j /\ b = j + 1
      /\ IsTree(s.n, EdgeSet(s))
      /\ (s.pc = "edges" => s.emitted["edge"] = s.i)
      /\ (s.pc \in {"queries", "done"} => s.emitted["edge"] = s.n - 1)
      /\ (s.out.kind = "edge" =>
            s.out.toks = <<s.u[s.emitted["edge"] - 1],
                           s.v[s.emitted["edge"] - 1]>>)

\* a path on three vertices, relabelled by a permutation that moves every
\* vertex, with both edges written
PathRelabelled ==
  /\ prog = "line"
  /\ run[1].pc = "done"
  /\ run[1].n = 3
  /\ \A j \in 0..2 : run[1].perm[j] # j
  /\ run[1].emitted["edge"] = 2

\* C3: every value written lies in 0..A_AND_X_MAX and every vertex written
\* (edge ends, update target p, query ends u, v) lies in 0..N-1.
InRange ==
  \A r \in Runs :
    LET s == run[r]
        t == s.out.toks
    IN prog = "line" =>
         /\ (s.out.kind = "value" => t[1] \in 0..A_AND_X_MAX)
         /\ (s.out.kind = "edge" =>
               t[1] \in 0..(s.n - 1) /\ t[2] \in 0..(s.n - 1))
         /\ (s.out.kind = "query" =>
               /\ t[1] \in {0, 1}
               /\ t[2] \in 0..(s.n - 1)
               /\ (t[1] = 0 => t[3] \in 0..A_AND_X_MAX)
               /\ (t[1] = 1 => t[3] \in 0..(s.n - 1)))

\* an update of the last vertex to the largest value
UpdateAtEnds ==
  /\ prog = "line"
  /\ run[1].n >= 2
  /\ run[1].out.kind = "query"
  /\ run[1].out.toks = <<0, run[1].n - 1, A_AND_X_MAX>>

\* C4: in every accepted pair B is not empty and does not start with '0',
\* A is not empty and starts with '0' only when it is one character long,
\* and every character of A and B is a decimal digit.
NoLeadingZero ==
  \A r \in Runs :
    prog = "medium" =>
      \A j \in 1..Len(run[r].A) :
        LET a == run[r].A[j]
            b == run[r].B[j]
        IN /\ Len(b) >= 1
           /\ b[1] # Char0
           /\ Len(a) >= 1
           /\ (a[1] = Char0 => Len(a) = 1)
           /\ \A k \in 1..Len(a) : a[k] \in Digits
           /\ \A k \in 1..Len(b) : b[k] \in Digits

\* the pairs "0 9" and "9 1" accepted and printed: A is the single
\* character '0', and a one-character B drawn at its lower end is '1'
ZeroOverDigit ==
  /\ prog = "medium"
  /\ run[1].pc = "done"
  /\ \E j, k \in 1..Len(run[1].A) :
       /\ run[1].A[j] = <<Char0>>
       /\ run[1].B[j] = <<Char0 + 9>>
       /\ run[1].A[k] = <<Char0 + 9>>
       /\ run[1].B[k] = <<Char0 + 1>>

\* C5: two runs of the same generator on the same seed, over the same
\* Random Source, agree after every step: same position, same write,
\* same number of writes of each kind, same Random Source calls.
Determinism ==
  (twin /\ run[1].steps = run[2].steps) => Observable(1) = Observable(2)

\* C6: for every seed the index given to the tier table is 0, 1 or 2, the
\* tier bound is the table's entry at seed mod 3, and the Random Source
\* is initialised with seed + 12345.
TierSelected ==
  \A r \in Runs :
    (prog = "medium" /\ run[r].pc # "start") =>
      /\ run[r].idx \in 0..2
      /\ run[r].idx = seed % 3
      /\ run[r].upper = TierTable[run[r].idx + 1]
      /\ run[r].upper \in {10, 300, 10000}
      /\ run[r].genSeed = seed + 12345

ExpectedWrites(h, nl) ==
  [k \in Kinds |-> IF k = "header" THEN h ELSE IF k = "newline" THEN nl ELSE 0]

\* C7 as stated: with N_AND_Q_MAX = 0 the run ends without error, having
\* written "0 0" and an empty value line, no edge and no query, with empty
\* edge containers and a permutation of size 0 drawn.
ZeroSizeSucceeds ==
  (prog = "line" /\ nmax = 0) =>
    /\ run[1].pc # "aborted"
    /\ (Terminal(1) =>
          /\ run[1].pc = "done"
          /\ run[1].emitted = ExpectedWrites(1, 1)
          /\ run[1].u = <<>> /\ run[1].v = <<>>
          /\ run[1].ncalls = 1)

\* C7 as the code has it: with N_AND_Q_MAX = 0 the run writes "0 0" and an
\* empty value line and then fails where the edge containers are
\* constructed with size n - 1 = -1: nothing more is written, the
\* permutation is not drawn, and no Random Source call is made at all.
ZeroSizeAborts ==
  \A r \in Runs :
    LET s == run[r] IN
    (prog = "line" /\ nmax = 0) =>
      /\ s.pc \in {"start", "values", "alloc", "aborted"}
      /\ s.ncalls = 0
      /\ s.emitted["value"] = 0
      /\ (s.pc = "values" =>
            s.out = [kind |-> "header", toks |-> <<0, 0>>]
            /\ s.emitted = ExpectedWrites(1, 0))
      /\ (s.pc \in {"alloc", "aborted"} =>
            s.out = [kind |-> "newline", toks |-> <<>>]
            /\ s.emitted = ExpectedWrites(1, 1))
      /\ (s.pc = "alloc" => EdgeCount(s.n) < 0)

\* the run with N_AND_Q_MAX = 0 has failed
ZeroSizeFailed == prog = "line" /\ nmax = 0 /\ run[1].pc = "aborted"

\* C8: the accepted pairs are the first candidates, whole; while the loop
\* runs every candidate so far was accepted; the loop ends at the first
\* candidate that takes the total above the budget, which is dropped and
\* is the last one generated; the count written is the number of accepted
\* pairs and the pair lines follow in generation order.
LongestPrefix ==
  \A r \in Runs :
    LET s == run[r]
        k == Len(s.A)
    IN prog = "medium" =>
         /\ Len(s.B) = k
         /\ k <= Len(s.cands)
         /\ \A j \in 1..k :
              Len(s.A[j]) = s.cands[j].alen /\ Len(s.B[j]) = s.cands[j].blen
         /\ CandSum(s.cands, k) <= SUM_OF_CHARACTER_LENGTH
         /\ s.lsum = CandSum(s.cands, Len(s.cands))
         /\ (s.pc \in {"start", "loop", "aborted"} =>
               Len(s.cands) = k /\ s.out = NoOut)
         /\ (s.pc \in {"print", "pairs", "done"} =>
               /\ Len(s.cands) = k + 1
               /\ CandSum(s.cands, k + 1) > SUM_OF_CHARACTER_LENGTH)
         /\ (s.pc = "print" => s.out = NoOut)
         /\ (s.pc \in {"pairs", "done"} => s.emitted["count"] = 1)
         /\ (s.out.kind = "count" => s.out.toks = <<k>> /\ s.i = 0)
         /\ (s.out.kind = "pair" =>
               /\ s.i \in 1..k
               /\ s.emitted["pair"] = s.i
               /\ s.out.toks = s.A[s.i] \o <<Space>> \o s.B[s.i])
         /\ (s.pc = "done" => s.emitted["pair"] = k)

\* one pair accepted and printed, the second candidate dropped
SecondDropped ==
  /\ prog = "medium"
  /\ run[1].pc = "done"
  /\ Len(run[1].A) = 1
  /\ Len(run[1].cands) = 2
  /\ run[1].out.kind = "pair"

\* C9: for every candidate, a non-zero bias draw gives |A| >= |B| with
\* the two drawn lengths exchanged exactly when alen < blen, a zero bias
\* draw keeps the drawn lengths in order, and both lengths are in
\* 1..upper.
BiasSwap ==
  \A r \in Runs :
    LET s == run[r] IN
    prog = "medium" =>
      \A j \in 1..Len(s.cands) :
        LET c == s.cands[j] IN
        /\ c.alen0 \in 1..s.upper /\ c.blen0 \in 1..s.upper
        /\ c.alen \in 1..s.upper /\ c.blen \in 1..s.upper
        /\ (c.bias # 0 =>
              /\ c.alen >= c.blen
              /\ c.alen = Max2(c.alen0, c.blen0)
              /\ c.blen = Min2(c.alen0, c.blen0))
        /\ (c.bias = 0 => c.alen = c.alen0 /\ c.blen = c.blen0)
        /\ (j <= Len(s.A) =>
              Len(s.A[j]) = c.alen /\ Len(s.B[j]) = c.blen)

\* a candidate whose lengths were exchanged and a candidate left with
\* |A| < |B|, the first of them accepted
SwappedAndNot ==
  /\ prog = "medium"
  /\ Len(run[1].A) >= 1
  /\ \E j, k \in 1..Len(run[1].cands) :
       /\ run[1].cands[j].bias # 0
       /\ run[1].cands[j].alen0 < run[1].cands[j].blen0
       /\ run[1].cands[k].bias = 0
       /\ run[1].cands[k].alen < run[1].cands[k].blen

\* the loop has run at most floor(SUM_OF_CHARACTER_LENGTH / 2) + 1 times
IterationBound ==
  \A r \in Runs :
    prog = "medium" =>
      /\ Len(run[r].cands) <= (SUM_OF_CHARACTER_LENGTH \div 2) + 1
      /\ \A j \in 1..Len(run[r].cands) :
           run[r].cands[j].alen + run[r].cands[j].blen >= 2

\* C10: for every seed the loop ends after at most
\* floor(SUM_OF_CHARACTER_LENGTH / 2) + 1 iterations, each adding at least
\* 2 to the total, and the output is then written.
LoopTerminates ==
  /\ []IterationBound
  /\ (prog = "medium") ~> (run[1].pc = "done" /\ run[1].emitted["count"] = 1)

\* the same for the seeds whose remainder seed % 3 is not negative
LoopTerminatesInRange ==
  (prog = "medium" /\ TierIndex(seed) \in 0..2)
    ~> (run[1].pc = "done" /\ run[1].emitted["count"] = 1)

\* two runs agree whenever the tier index is inside the table
DeterminismInRange ==
  (prog = "medium" => TierIndex(seed) \in 0..2) => Determinism

====
